---- MODULE Spec2Model ----
(***************************************************************************)
(* Model of the three-layer network of main.go (MPNN): the gonum matrix    *)
(* helpers (dot, scale, mult, add, sub, apply), initMPNN, forwardProp and  *)
(* MPNN.backProp.                                                          *)
(*                                                                         *)
(* float64 is modelled as fixed point: the integer v stands for v / Q.     *)
(* Products are rounded to the nearest unit, sigmoid is the logistic       *)
(* function rounded to the nearest unit.  *mat.Dense values live on a      *)
(* heap (address -> matrix), so that aliasing, in-place updates and the    *)
(* rebinding of the two weight fields are visible.  backProp is modelled   *)
(* statement by statement, with the read and the write of each weight      *)
(* field as separate steps.                                                *)
(***************************************************************************)
EXTENDS Integers, Sequences, FiniteSets, TLC

VARIABLES
    net,    \* the MPNN struct (zero value before initMPNN has returned)
    heap,   \* address -> [r, c, d]: the live *mat.Dense objects
    pc,     \* per goroutine: the statement of backProp it is about to run
    loc,    \* per goroutine: arguments and locals of its backProp call
    ret,    \* address of the matrix returned by the last forwardProp, or 0
    err,    \* the panic raised by the last call, or "none"
    snap,   \* by-value copy of the MPNN struct taken when a call started
    last,   \* the last call: operation, arguments, whether it returned
    sched,  \* whether two calls were launched together / have interleaved
    calls   \* number of calls started so far

vars == <<net, heap, pc, loc, ret, err, snap, last, sched, calls>>

----------------------------------------------------------------------------
(* Bounds *)

MaxSize  == 2      \* layer sizes are drawn from -1 .. MaxSize
MaxLen   == 2      \* input and target slices have length 0 .. MaxLen
MaxSeed  == 0      \* seeds of the random source are 0 .. MaxSeed
MaxCalls == 2      \* calls started in one behaviour
MaxDim   == 4      \* operand shapes of the primitives are 1 .. MaxDim

Q == 8             \* fixed-point units per 1.0

Threads    == {1, 2}
SeqThreads == {1}
Sizes      == (0 - 1) .. MaxSize
Seeds      == 0 .. MaxSeed
LearnRates == {0 - Q, 0, 2 * Q}
Fills      == {1, 2}

\* constant vectors of every length 0 .. MaxLen
Vectors(vals) == {[k \in 1..n |-> v] : n \in 0..MaxLen, v \in vals}
Inputs  == Vectors({Q})
Targets == Vectors({0, Q})

----------------------------------------------------------------------------
(* Values *)

NoErr == "none"
NoRef == 0
NoNet == [in |-> 0, hidden |-> 0, out |-> 0,
          hidWeights |-> NoRef, outWeights |-> NoRef, learnRate |-> 0]

\* the panics of gonum/mat that report a violated shape precondition
DimensionMismatch == {"ErrShape", "ErrZeroLength"}

\* a * b in fixed point, rounded to the nearest unit
FMul(a, b) == (2 * a * b + Q) \div (2 * Q)

\* 1/(1+exp(-x)) in fixed point: the number of k in 1..Q with
\* x/Q >= logit((k - 1/2)/Q), i.e. the logistic value rounded to a unit
SigThresholds == {0 - 21, 0 - 11, 0 - 6, 0 - 2, 3, 7, 12, 22}
sigmoid(p1, p2, x) == Cardinality({th \in SigThresholds : x >= th})

\* largest b with (b/Q)^2 * n <= 1: 1/sqrt(n) in fixed point, rounded down
InvSqrt(n) == CHOOSE b \in 0..Q : b * b * n <= Q * Q
                                  /\ \A b2 \in 0..Q : b2 * b2 * n <= Q * Q => b2 <= b

----------------------------------------------------------------------------
(* The heap and mat.Matrix operands *)

\* an operand is a *Dense (t = FALSE) or the Transpose view of one (t = TRUE)
Dense(a) == [a |-> a, t |-> FALSE]
T(m)     == [a |-> m.a, t |-> ~m.t]

Dims(hp, m) == IF m.t THEN <<hp[m.a].c, hp[m.a].r>> ELSE <<hp[m.a].r, hp[m.a].c>>
At(hp, m, i, j) == IF m.t THEN hp[m.a].d[(j - 1) * hp[m.a].c + i]
                          ELSE hp[m.a].d[(i - 1) * hp[m.a].c + j]

\* the result of a helper: the heap it leaves, the address it returns, its panic
\* g is the goroutine that runs the helper (0 is the main goroutine)
Start(hp, g) == [hp |-> hp, ref |-> NoRef, err |-> NoErr, g |-> g]
Fail(s, e)   == [hp |-> s.hp, ref |-> NoRef, err |-> e, g |-> s.g]

\* every goroutine allocates from its own arena: the addresses congruent to
\* its number; a new object gets the lowest free address of the arena
Arenas == Cardinality(Threads) + 1
ArenaAddr(g, k) == Arenas * (k - 1) + g + 1
NewAddr(hp, g) ==
    LET k == CHOOSE k \in 1..(Cardinality(DOMAIN hp) + 1) :
                 /\ ArenaAddr(g, k) \notin DOMAIN hp
                 /\ \A j \in 1..(k - 1) : ArenaAddr(g, j) \in DOMAIN hp
    IN  ArenaAddr(g, k)

\* F applied to the value of v (v is evaluated once)
Let(v, F(_)) == CHOOSE r \in {F(x) : x \in {v}} : TRUE

Alloc(s, m) == Let(NewAddr(s.hp, s.g),
                   LAMBDA a : [hp |-> (a :> m) @@ s.hp, ref |-> a, err |-> NoErr, g |-> s.g])

\* what the garbage collector keeps
Collect(hp, roots) == [a \in (DOMAIN hp \cap roots) |-> hp[a]]

\* mat.NewDense(r, c, data) with a non-nil data slice
NewDense(s, r, c, data) ==
    IF s.err # NoErr THEN Fail(s, s.err)
    ELSE IF r <= 0 \/ c <= 0
         THEN (IF r = 0 \/ c = 0 THEN Fail(s, "ErrZeroLength")
                                 ELSE Fail(s, "ErrNegativeDimension"))
    ELSE IF Len(data) # r * c THEN Fail(s, "ErrShape")
    ELSE Alloc(s, [r |-> r, c |-> c, d |-> data])

\* mat.NewDense(r, c, nil): a zeroed r x c matrix
NewDenseNil(s, r, c) ==
    IF s.err # NoErr THEN Fail(s, s.err)
    ELSE IF r <= 0 \/ c <= 0
         THEN (IF r = 0 \/ c = 0 THEN Fail(s, "ErrZeroLength")
                                 ELSE Fail(s, "ErrNegativeDimension"))
    ELSE Alloc(s, [r |-> r, c |-> c, d |-> [k \in 1..(r * c) |-> 0]])

RowOf(k, c) == ((k - 1) \div c) + 1
ColOf(k, c) == ((k - 1) % c) + 1

\* receiver.reuseAs(r, c): a non-empty receiver must already have that shape
ReuseOK(hp, recv, r, c) == hp[recv].r = r /\ hp[recv].c = c

Store(s, recv, data) ==
    [hp |-> [s.hp EXCEPT ![recv].d = data], ref |-> recv, err |-> NoErr, g |-> s.g]

RECURSIVE DotSum(_, _, _, _, _, _)
DotSum(hp, a, b, i, j, k) ==
    IF k = 0 THEN 0
    ELSE FMul(At(hp, a, i, k), At(hp, b, k, j)) + DotSum(hp, a, b, i, j, k - 1)

\* (*Dense).Product(a, b) = (*Dense).Mul(a, b)
DenseMul(s, recv, a, b) ==
    LET ad == Dims(s.hp, a)
        bd == Dims(s.hp, b)
    IN  IF ad[2] # bd[1] THEN Fail(s, "ErrShape")
        ELSE IF ~ReuseOK(s.hp, recv, ad[1], bd[2]) THEN Fail(s, "ErrShape")
        ELSE Store(s, recv, [k \in 1..(ad[1] * bd[2]) |->
                 DotSum(s.hp, a, b, RowOf(k, bd[2]), ColOf(k, bd[2]), ad[2])])

\* (*Dense).Scale(f, a)
DenseScale(s, recv, f, a) ==
    LET ad == Dims(s.hp, a)
    IN  IF ~ReuseOK(s.hp, recv, ad[1], ad[2]) THEN Fail(s, "ErrShape")
        ELSE Store(s, recv, [k \in 1..(ad[1] * ad[2]) |->
                 FMul(f, At(s.hp, a, RowOf(k, ad[2]), ColOf(k, ad[2])))])

\* (*Dense).MulElem(a, b)
DenseMulElem(s, recv, a, b) ==
    LET ad == Dims(s.hp, a)
        bd == Dims(s.hp, b)
    IN  IF ad # bd THEN Fail(s, "ErrShape")
        ELSE IF ~ReuseOK(s.hp, recv, ad[1], ad[2]) THEN Fail(s, "ErrShape")
        ELSE Store(s, recv, [k \in 1..(ad[1] * ad[2]) |->
                 FMul(At(s.hp, a, RowOf(k, ad[2]), ColOf(k, ad[2])),
                      At(s.hp, b, RowOf(k, ad[2]), ColOf(k, ad[2])))])

\* the same with the shape test left out: the second operand is read modulo
\* its own shape (broadcast or truncated)
DenseAddBroadcast(s, recv, a, b) ==
    LET ad == Dims(s.hp, a)
        bd == Dims(s.hp, b)
    IN  Store(s, recv, [k \in 1..(ad[1] * ad[2]) |->
                 At(s.hp, a, RowOf(k, ad[2]), ColOf(k, ad[2]))
                 + At(s.hp, b, ((RowOf(k, ad[2]) - 1) % bd[1]) + 1,
                               ((ColOf(k, ad[2]) - 1) % bd[2]) + 1)])

\* (*Dense).Add(a, b)
DenseAdd(s, recv, a, b) ==
    LET ad == Dims(s.hp, a)
        bd == Dims(s.hp, b)
    IN  IF ad # bd THEN Fail(s, "ErrShape")
        ELSE IF ~ReuseOK(s.hp, recv, ad[1], ad[2]) THEN Fail(s, "ErrShape")
        ELSE Store(s, recv, [k \in 1..(ad[1] * ad[2]) |->
                 At(s.hp, a, RowOf(k, ad[2]), ColOf(k, ad[2]))
                 + At(s.hp, b, RowOf(k, ad[2]), ColOf(k, ad[2]))])

\* (*Dense).Sub(a, b)
DenseSub(s, recv, a, b) ==
    LET ad == Dims(s.hp, a)
        bd == Dims(s.hp, b)
    IN  IF ad # bd THEN Fail(s, "ErrShape")
        ELSE IF ~ReuseOK(s.hp, recv, ad[1], ad[2]) THEN Fail(s, "ErrShape")
        ELSE Store(s, recv, [k \in 1..(ad[1] * ad[2]) |->
                 At(s.hp, a, RowOf(k, ad[2]), ColOf(k, ad[2]))
                 - At(s.hp, b, RowOf(k, ad[2]), ColOf(k, ad[2]))])

\* (*Dense).Apply(sigmoid, a)
DenseApply(s, recv, a) ==
    LET ad == Dims(s.hp, a)
    IN  IF ~ReuseOK(s.hp, recv, ad[1], ad[2]) THEN Fail(s, "ErrShape")
        ELSE Store(s, recv, [k \in 1..(ad[1] * ad[2]) |->
                 sigmoid(RowOf(k, ad[2]), ColOf(k, ad[2]),
                         At(s.hp, a, RowOf(k, ad[2]), ColOf(k, ad[2])))])

----------------------------------------------------------------------------
(* The helper functions of main.go.  Each takes the result s of the call   *)
(* evaluated before it (a panic propagates) and allocates its own result.  *)

\* the product written into the first operand instead of a new matrix
dotInPlace(s, m, n) ==
    IF s.err # NoErr THEN Fail(s, s.err)
    ELSE LET ad == Dims(s.hp, m)
             bd == Dims(s.hp, n)
         IN  IF ad[2] # bd[1] THEN Fail(s, "ErrShape")
             ELSE IF m.t \/ ad[2] # bd[2]
                  THEN Let(NewDenseNil(s, ad[1], bd[2]),
                           LAMBDA out : IF out.err # NoErr THEN out
                                        ELSE DenseMul(out, out.ref, m, n))
             ELSE DenseMul(s, m.a, m, n)

dot(s, m, n) ==
    IF s.err # NoErr THEN Fail(s, s.err)
    ELSE Let(NewDenseNil(s, Dims(s.hp, m)[1], Dims(s.hp, n)[2]),
             LAMBDA out : IF out.err # NoErr THEN out ELSE DenseMul(out, out.ref, m, n))

scale(s, factor, m) ==
    IF s.err # NoErr THEN Fail(s, s.err)
    ELSE Let(NewDenseNil(s, Dims(s.hp, m)[1], Dims(s.hp, m)[2]),
             LAMBDA out : IF out.err # NoErr THEN out ELSE DenseScale(out, out.ref, factor, m))

mult(s, m, n) ==
    IF s.err # NoErr THEN Fail(s, s.err)
    ELSE Let(NewDenseNil(s, Dims(s.hp, m)[1], Dims(s.hp, m)[2]),
             LAMBDA out : IF out.err # NoErr THEN out ELSE DenseMulElem(out, out.ref, m, n))

\* the sum accumulated into the first operand instead of a new matrix
addInPlace(s, m, n) ==
    IF s.err # NoErr THEN Fail(s, s.err)
    ELSE IF m.t THEN Fail(s, "ErrShape")
    ELSE DenseAdd(s, m.a, m, n)

add(s, m, n) ==
    IF s.err # NoErr THEN Fail(s, s.err)
    ELSE Let(NewDenseNil(s, Dims(s.hp, m)[1], Dims(s.hp, m)[2]),
             LAMBDA out : IF out.err # NoErr THEN out ELSE DenseAdd(out, out.ref, m, n))

sub(s, m, n) ==
    IF s.err # NoErr THEN Fail(s, s.err)
    ELSE Let(NewDenseNil(s, Dims(s.hp, m)[1], Dims(s.hp, m)[2]),
             LAMBDA out : IF out.err # NoErr THEN out ELSE DenseSub(out, out.ref, m, n))

apply(s, m) ==
    IF s.err # NoErr THEN Fail(s, s.err)
    ELSE Let(NewDenseNil(s, Dims(s.hp, m)[1], Dims(s.hp, m)[2]),
             LAMBDA out : IF out.err # NoErr THEN out ELSE DenseApply(out, out.ref, m))

sigmoidDerivative(s, m) ==
    IF s.err # NoErr THEN Fail(s, s.err)
    ELSE Let(NewDense(s, Dims(s.hp, m)[1], 1, [k \in 1..Dims(s.hp, m)[1] |-> Q]),
             LAMBDA ones : Let(sub(ones, Dense(ones.ref), m),
                               LAMBDA dif : mult(dif, m, Dense(dif.ref))))

----------------------------------------------------------------------------
(* Weight initialisation *)

\* state of the random source after k draws (a full-period congruential
\* generator over 0..7 stands for the seeded source)
RECURSIVE Lcg(_, _)
Lcg(seed, k) == IF k = 0 THEN seed % 8 ELSE (5 * Lcg(seed, k - 1) + 3) % 8

\* the k-th dist.Rand(): Float64() * (Max - Min) + Min with Max = -Min = 1/sqrt(fromSize);
\* for fromSize < 0 math.Sqrt gives NaN
Rand(fromSize, seed, k) ==
    IF fromSize <= 0 THEN "NaN"
    ELSE (Lcg(seed, k) * 2 * InvSqrt(fromSize)) \div 8 - InvSqrt(fromSize)

initRandArray(size, fromSize, seed) ==
    IF size < 0 THEN [arr |-> <<>>, err |-> "makeslice"]
    ELSE [arr |-> [k \in 1..size |-> Rand(fromSize, seed, k)], err |-> NoErr]

\* the hidden weights built with rows and columns exchanged
hidShapeSwapped(network) == <<network.in, network.hidden>>

\* rows and columns of the hidden weight matrix
hidShape(network) == <<network.hidden, network.in>>

\* initMPNN: the result carries the struct that is returned, if any
initMPNN(hp, sizes, learn, seed1, seed2) ==
    LET network == [in |-> sizes[1], hidden |-> sizes[2], out |-> sizes[3],
                    hidWeights |-> NoRef, outWeights |-> NoRef, learnRate |-> learn]
        \* lines 62-64
        Hid == Let(initRandArray(network.hidden * network.in, network.in, seed1),
                   LAMBDA a1 : IF a1.err # NoErr THEN Fail(Start(hp, 0), a1.err)
                               ELSE NewDense(Start(hp, 0), hidShape(network)[1],
                                             hidShape(network)[2], a1.arr))
        \* lines 65-67
        Out(h) == Let(initRandArray(network.hidden * network.out, network.hidden, seed2),
                      LAMBDA a2 : IF a2.err # NoErr THEN Fail(h, a2.err)
                                  ELSE NewDense(h, network.out, network.hidden, a2.arr))
        Returned(h, o) == IF o.err # NoErr
                       THEN [hp |-> hp, err |-> o.err, net |-> NoNet]
                       ELSE [hp |-> o.hp, err |-> NoErr,
                             net |-> [network EXCEPT !.hidWeights = h.ref,
                                                     !.outWeights = o.ref]]
    IN  Let(Hid, LAMBDA h : IF h.err # NoErr THEN Returned(h, h)
                            ELSE Let(Out(h), LAMBDA o : Returned(h, o)))

----------------------------------------------------------------------------
(* Forward propagation *)

\* forwardProp returning the hidden activation instead of the output one
forwardPropHidden(hp, input, network) ==
    Let(NewDense(Start(hp, 0), Len(input), 1, input), LAMBDA inLayer :
    Let(dot(inLayer, Dense(network.hidWeights), Dense(inLayer.ref)), LAMBDA inLayerWeightsIn :
        apply(inLayerWeightsIn, Dense(inLayerWeightsIn.ref))))

forwardProp(hp, input, network) ==
    Let(NewDense(Start(hp, 0), Len(input), 1, input), LAMBDA inLayer :
    Let(dot(inLayer, Dense(network.hidWeights), Dense(inLayer.ref)), LAMBDA inLayerWeightsIn :
    Let(apply(inLayerWeightsIn, Dense(inLayerWeightsIn.ref)), LAMBDA inLayerWeightsOut :
    Let(dot(inLayerWeightsOut, Dense(network.outWeights), Dense(inLayerWeightsOut.ref)),
        LAMBDA hidLayerWeightsIn :
        apply(hidLayerWeightsIn, Dense(hidLayerWeightsIn.ref))))))

----------------------------------------------------------------------------
(* Back propagation, statement by statement.  l is the record of locals.   *)

NoLocals == [input |-> <<>>, target |-> <<>>, inLayer |-> NoRef,
             inLayerWeightsOut |-> NoRef, hidLayerWeightsOut |-> NoRef,
             outputError |-> NoRef, hiddenError |-> NoRef, sum |-> NoRef]

\* lines 94-97: the hidden activation, from net.hidWeights
hiddenActivation(s, n, inLayer) ==
    Let(dot(s, Dense(n.hidWeights), Dense(inLayer)), LAMBDA inLayerWeightsIn :
        apply(inLayerWeightsIn, Dense(inLayerWeightsIn.ref)))

\* lines 99-100: the output activation, from net.outWeights
outputActivation(s, n, l) ==
    Let(dot(s, Dense(n.outWeights), Dense(l.inLayerWeightsOut)), LAMBDA hidLayerWeightsIn :
        apply(hidLayerWeightsIn, Dense(hidLayerWeightsIn.ref)))

\* lines 104-105: outputError := sub(actual, hidLayerWeightsOut)
outError(s, l) ==
    Let(NewDense(s, Len(l.target), 1, l.target), LAMBDA actual :
        sub(actual, Dense(actual.ref), Dense(l.hidLayerWeightsOut)))

\* line 106: hiddenError := dot(net.outWeights.T(), outputError)
hidError(s, n, outputError) == dot(s, T(Dense(n.outWeights)), Dense(outputError))

\* add(w, scale(learnRate, dot(mult(e, sigmoidDerivative(act)), x))): the
\* expression of lines 113-116 and of lines 119-122
step(s, n, w, e, act, x) ==
    Let(sigmoidDerivative(s, act), LAMBDA sd :
    Let(mult(sd, e, Dense(sd.ref)), LAMBDA m :
    Let(dot(m, Dense(m.ref), x), LAMBDA d :
    Let(scale(d, n.learnRate, Dense(d.ref)), LAMBDA sc :
        add(sc, w, Dense(sc.ref))))))

\* lines 113-116, right-hand side: the new output weights
outUpdate(s, n, l) ==
    step(s, n, Dense(n.outWeights), Dense(l.outputError), Dense(l.hidLayerWeightsOut),
         T(Dense(l.inLayerWeightsOut)))

\* the hidden error taken from net.outWeights at the time of the hidden update
hidUpdateStale(s, n, l) ==
    Let(hidError(s, n, l.outputError), LAMBDA he :
        step(he, n, Dense(n.hidWeights), Dense(he.ref), Dense(l.inLayerWeightsOut),
             T(Dense(l.inLayer))))

\* the hidden update with inLayer in place of inLayer.T()
hidUpdateNoT(s, n, l) ==
    step(s, n, Dense(n.hidWeights), Dense(l.hiddenError), Dense(l.inLayerWeightsOut),
         Dense(l.inLayer))

\* lines 119-122, right-hand side: the new hidden weights
hidUpdate(s, n, l) ==
    step(s, n, Dense(n.hidWeights), Dense(l.hiddenError), Dense(l.inLayerWeightsOut),
         T(Dense(l.inLayer)))

\* the output update assigned to the wrong field
assignOutWrongField(n, ref) == [n EXCEPT !.hidWeights = ref]

\* line 113, the assignment net.outWeights = ...
assignOut(n, ref) == [n EXCEPT !.outWeights = ref]

\* line 119, the assignment net.hidWeights = ...
assignHid(n, ref) == [n EXCEPT !.hidWeights = ref]

----------------------------------------------------------------------------
(* State *)

Built == net.hidWeights # NoRef

AllIdle == \A t \in Threads : pc[t] = "idle"

\* a goroutine that has run a statement of its call and has not returned
MidCall(t) == pc[t] \notin {"idle", "L94"}

LocalRefs(l) == {l.inLayer, l.inLayerWeightsOut, l.hidLayerWeightsOut,
                 l.outputError, l.hiddenError, l.sum}

Roots(n, sn, r, lc) ==
    ({n.hidWeights, n.outWeights, sn.hidWeights, sn.outWeights, r}
       \cup UNION {LocalRefs(lc[t]) : t \in Threads}) \ {NoRef}

NoCall == [op |-> "none", input |-> <<>>, target |-> <<>>, ok |-> FALSE]

Init ==
    /\ net = NoNet
    /\ heap = <<>>
    /\ pc = [t \in Threads |-> "idle"]
    /\ loc = [t \in Threads |-> NoLocals]
    /\ ret = NoRef
    /\ err = NoErr
    /\ snap = NoNet
    /\ last = NoCall
    /\ sched = [launched |-> FALSE, mixed |-> FALSE]
    /\ calls = 0

----------------------------------------------------------------------------
(* Construction and forward propagation *)

\* var net MPNN = initMPNN(sizes, learn); the seeds are the clock readings
InitNetwork ==
    /\ last.op = "none"
    /\ \E i \in Sizes, h \in Sizes, o \in Sizes, lr \in LearnRates,
          seed1 \in Seeds, seed2 \in Seeds :
          \E res \in {initMPNN(heap, <<i, h, o>>, lr, seed1, seed2)} :
              /\ net' = res.net
              /\ heap' = res.hp
              /\ err' = res.err
              /\ last' = [op |-> "init", input |-> <<i, h, o>>, target |-> <<lr>>,
                          ok |-> res.err = NoErr]
    /\ UNCHANGED <<pc, loc, ret, snap, sched, calls>>

\* guess := forwardProp(input, net); the struct is passed by value
Forward ==
    /\ Built /\ AllIdle /\ calls < MaxCalls
    /\ \E input \in Inputs :
          \E res \in {forwardProp(heap, input, net)} :
              /\ ret' = res.ref
              /\ err' = res.err
              /\ snap' = net
              /\ heap' = Collect(res.hp, Roots(net, net, res.ref, loc))
              /\ last' = [op |-> "forward", input |-> input, target |-> <<>>,
                          ok |-> res.err = NoErr]
    /\ calls' = calls + 1
    /\ UNCHANGED <<net, pc, loc, sched>>

----------------------------------------------------------------------------
(* net.backProp(input, target) *)

Args(input, target) == [NoLocals EXCEPT !.input = input, !.target = target]

\* sched.mixed becomes true when t runs a statement while another call is under way
Mix(t) == [sched EXCEPT !.mixed = @ \/ \E u \in Threads \ {t} : MidCall(u)]

\* a call made while no other call is running
Begin(t) ==
    /\ Built /\ AllIdle /\ ~sched.launched /\ calls < MaxCalls
    /\ \E input \in Inputs, target \in Targets :
          /\ loc' = [loc EXCEPT ![t] = Args(input, target)]
          /\ last' = [op |-> "running", input |-> input, target |-> target, ok |-> FALSE]
    /\ pc' = [pc EXCEPT ![t] = "L94"]
    /\ snap' = net
    /\ ret' = NoRef
    /\ err' = NoErr
    /\ heap' = Collect(heap, Roots(net, net, NoRef, loc'))
    /\ calls' = calls + 1
    /\ UNCHANGED <<net, sched>>

\* the call of t panics with e: its locals are dropped, the panic reaches the caller
Abort(t, e) ==
    /\ pc' = [pc EXCEPT ![t] = "idle"]
    /\ loc' = [loc EXCEPT ![t] = Args(loc[t].input, loc[t].target)]
    /\ err' = e
    /\ last' = [op |-> "train", input |-> loc[t].input, target |-> loc[t].target,
                ok |-> FALSE]
    /\ heap' = Collect(heap, Roots(net, snap, ret, loc'))
    /\ UNCHANGED <<net, ret, snap, calls>>

\* the statement of t has run without a panic, leaving heap hp and locals l
Continue(t, next, hp, l) ==
    /\ pc' = [pc EXCEPT ![t] = next]
    /\ loc' = [loc EXCEPT ![t] = l]
    /\ heap' = Collect(hp, Roots(net, snap, ret, loc'))
    /\ UNCHANGED <<net, ret, err, snap, last, calls>>

\* lines 94-97
L94(t) ==
    /\ pc[t] = "L94"
    /\ sched' = Mix(t)
    /\ \E inLayer \in {NewDense(Start(heap, t), Len(loc[t].input), 1, loc[t].input)} :
       \E res \in {hiddenActivation(inLayer, net, inLayer.ref)} :
           IF res.err # NoErr THEN Abort(t, res.err)
           ELSE Continue(t, "L99", res.hp,
                    [loc[t] EXCEPT !.inLayer = inLayer.ref, !.inLayerWeightsOut = res.ref])

\* lines 99-100
L99(t) ==
    /\ pc[t] = "L99"
    /\ sched' = Mix(t)
    /\ \E res \in {outputActivation(Start(heap, t), net, loc[t])} :
           IF res.err # NoErr THEN Abort(t, res.err)
           ELSE Continue(t, "L104", res.hp, [loc[t] EXCEPT !.hidLayerWeightsOut = res.ref])

\* lines 104-106
L104(t) ==
    /\ pc[t] = "L104"
    /\ sched' = Mix(t)
    /\ \E oe \in {outError(Start(heap, t), loc[t])} :
       \E res \in {hidError(oe, net, oe.ref)} :
           IF res.err # NoErr THEN Abort(t, res.err)
           ELSE Continue(t, "L113", res.hp,
                    [loc[t] EXCEPT !.outputError = oe.ref, !.hiddenError = res.ref])

\* lines 113-116: the right-hand side is evaluated
L113(t) ==
    /\ pc[t] = "L113"
    /\ sched' = Mix(t)
    /\ \E res \in {outUpdate(Start(heap, t), net, loc[t])} :
           IF res.err # NoErr THEN Abort(t, res.err)
           ELSE Continue(t, "L113w", res.hp, [loc[t] EXCEPT !.sum = res.ref])

\* line 113: net.outWeights is assigned
L113w(t) ==
    /\ pc[t] = "L113w"
    /\ sched' = Mix(t)
    /\ net' = assignOut(net, loc[t].sum)
    /\ pc' = [pc EXCEPT ![t] = "L119"]
    /\ loc' = [loc EXCEPT ![t].sum = NoRef]
    /\ heap' = Collect(heap, Roots(net', snap, ret, loc'))
    /\ UNCHANGED <<ret, err, snap, last, calls>>

\* lines 119-122: the right-hand side is evaluated
L119(t) ==
    /\ pc[t] = "L119"
    /\ sched' = Mix(t)
    /\ \E res \in {hidUpdate(Start(heap, t), net, loc[t])} :
           IF res.err # NoErr THEN Abort(t, res.err)
           ELSE Continue(t, "L119w", res.hp, [loc[t] EXCEPT !.sum = res.ref])

\* line 119: net.hidWeights is assigned, and the call returns
L119w(t) ==
    /\ pc[t] = "L119w"
    /\ sched' = Mix(t)
    /\ net' = assignHid(net, loc[t].sum)
    /\ pc' = [pc EXCEPT ![t] = "idle"]
    /\ loc' = [loc EXCEPT ![t] = Args(loc[t].input, loc[t].target)]
    /\ last' = [op |-> "train", input |-> loc[t].input, target |-> loc[t].target,
                ok |-> TRUE]
    /\ heap' = Collect(heap, Roots(net', snap, ret, loc'))
    /\ UNCHANGED <<ret, err, snap, calls>>

Step(t) == L94(t) \/ L99(t) \/ L104(t) \/ L113(t) \/ L113w(t) \/ L119(t) \/ L119w(t)

Next ==
    \/ InitNetwork
    \/ Forward
    \/ \E t \in SeqThreads : Begin(t)
    \/ \E t \in SeqThreads : Step(t)

Spec == Init /\ [][Next]_vars

----------------------------------------------------------------------------
(* Reference results *)

\* the contents of the two weight matrices of n
Weights(hp, n) == [hid |-> hp[n.hidWeights], out |-> hp[n.outWeights]]

\* one backProp call on weights w in which both new matrices are computed
\* from w and committed together; ok is false when the call panics
SimulCommit(w, lr, input, target) ==
    LET n0  == [NoNet EXCEPT !.hidWeights = 1, !.outWeights = 2, !.learnRate = lr]
        hp0 == (1 :> w.hid) @@ (2 :> w.out)
        l0  == Args(input, target)
        Result(no, nh) ==
            IF nh.err # NoErr THEN [ok |-> FALSE, w |-> w]
            ELSE [ok |-> TRUE, w |-> [hid |-> nh.hp[nh.ref], out |-> nh.hp[no.ref]]]
    IN  Let(NewDense(Start(hp0, 0), Len(input), 1, input), LAMBDA il :
        Let(hiddenActivation(il, n0, il.ref), LAMBDA ha :
        Let([l0 EXCEPT !.inLayer = il.ref, !.inLayerWeightsOut = ha.ref], LAMBDA l1 :
        Let(outputActivation(ha, n0, l1), LAMBDA oa :
        Let([l1 EXCEPT !.hidLayerWeightsOut = oa.ref], LAMBDA l2 :
        Let(outError(oa, l2), LAMBDA oe :
        Let(hidError(oe, n0, oe.ref), LAMBDA he :
        Let([l2 EXCEPT !.outputError = oe.ref, !.hiddenError = he.ref], LAMBDA l3 :
        Let(outUpdate(he, n0, l3), LAMBDA no :
        Let(hidUpdate(no, n0, l3), LAMBDA nh : Result(no, nh)))))))))))

----------------------------------------------------------------------------
(* Properties of the sequential program (Spec) *)

\* C1: once the network is built, and after any sequence of forwardProp and
\* backProp calls, hidWeights has hidden rows and in columns and outWeights
\* has out rows and hidden columns.
WeightShapes ==
    Built => /\ heap[net.hidWeights].r = net.hidden
             /\ heap[net.hidWeights].c = net.in
             /\ Len(heap[net.hidWeights].d) = net.hidden * net.in
             /\ heap[net.outWeights].r = net.out
             /\ heap[net.outWeights].c = net.hidden
             /\ Len(heap[net.outWeights].d) = net.out * net.hidden

\* a returned backProp call on a network none of whose weight matrices is square
WeightShapesWitness ==
    /\ last.op = "train" /\ last.ok
    /\ net.in # net.hidden /\ net.hidden # net.out /\ calls = MaxCalls

\* C2: the pair of weight matrices left by a backProp call equals the pair
\* computed from the weights at the start of the call and committed together.
UpdateUsesOldWeights ==
    (last.op = "train" /\ last.ok) =>
        \E ref \in {SimulCommit(Weights(heap, snap), net.learnRate, last.input, last.target)} :
            ref.ok /\ Weights(heap, net) = ref.w

\* a returned backProp call that changed both matrices
UpdateUsesOldWeightsWitness ==
    /\ last.op = "train" /\ last.ok
    /\ heap[net.hidWeights] # heap[snap.hidWeights]
    /\ heap[net.outWeights] # heap[snap.outWeights]

\* C3 as stated: during a call, once a weight field has been assigned, the
\* new value of the other field has already been computed.
BothComputedBeforeAssign ==
    \A t \in Threads :
        (pc[t] # "idle" /\ net.outWeights # snap.outWeights) => loc[t].sum # NoRef

\* C3 amended: the saved terms (both activations, outputError, hiddenError)
\* are computed before either weight field is assigned; outWeights is the
\* field assigned first, it is assigned before the new hidWeights is computed,
\* and that computation gives the value obtained from the weights at the
\* start of the call.
SavedTermsBeforeAssign ==
    \A t \in SeqThreads :
        pc[t] # "idle" =>
            /\ net.hidWeights = snap.hidWeights
            /\ net.outWeights # snap.outWeights <=> pc[t] \in {"L119", "L119w"}
            /\ net.outWeights # snap.outWeights =>
                  /\ loc[t].inLayerWeightsOut # NoRef
                  /\ loc[t].hidLayerWeightsOut # NoRef
                  /\ loc[t].outputError # NoRef
                  /\ loc[t].hiddenError # NoRef
            /\ pc[t] = "L119w" =>
                  heap[loc[t].sum] = SimulCommit(Weights(heap, snap), net.learnRate,
                                                 loc[t].input, loc[t].target).w.hid

\* the new hidden weights exist, differ from the old ones, and outWeights is
\* already rebound to a matrix with other contents
SavedTermsBeforeAssignWitness ==
    \E t \in SeqThreads :
        /\ pc[t] = "L119w"
        /\ heap[loc[t].sum] # heap[net.hidWeights]
        /\ heap[net.outWeights] # heap[snap.outWeights]

\* C4: initMPNN fails and returns no network whenever a size or the learning
\* rate is not positive.
InitRejectsNonPositive ==
    (last.op = "init" /\ ((\E k \in 1..3 : last.input[k] <= 0) \/ last.target[1] <= 0))
        => (~last.ok /\ ~Built /\ err # NoErr)

\* C5: forwardProp on an input of length in returns an out x 1 matrix; on an
\* input of another length it panics with a dimension error and returns nothing.
ForwardShape ==
    last.op = "forward" =>
        IF Len(last.input) = net.in
        THEN /\ last.ok /\ err = NoErr /\ ret # NoRef
             /\ heap[ret].r = net.out /\ heap[ret].c = 1
             /\ Len(heap[ret].d) = net.out
        ELSE ~last.ok /\ err \in DimensionMismatch /\ ret = NoRef

\* a forwardProp call on a non-empty input of the wrong length has panicked
ForwardShapeWitness ==
    /\ last.op = "forward" /\ ~last.ok
    /\ Len(last.input) \notin {0, net.in}
    /\ err = "ErrShape" /\ ret = NoRef

\* a step that is a forwardProp call
ForwardStep == calls' = calls + 1 /\ pc' = pc

\* C6: a forwardProp call, returning or panicking, leaves the struct fields
\* and the contents of both weight matrices as they were.
ForwardPure ==
    [][ForwardStep => (net' = net /\ Weights(heap', net') = Weights(heap, net))]_vars

\* a forwardProp call has returned a result
ForwardPureWitness ==
    /\ last.op = "forward" /\ last.ok /\ ret # NoRef /\ net = snap

\* C8: no step changes the contents of a matrix that stays allocated; a call
\* changes the struct only in its two weight fields; the matrices of a copy
\* of the struct keep their contents.
NoInPlaceUpdate ==
    [][/\ \A a \in DOMAIN heap \cap DOMAIN heap' : heap'[a] = heap[a]
       /\ Built => /\ net'.in = net.in /\ net'.hidden = net.hidden
                   /\ net'.out = net.out /\ net'.learnRate = net.learnRate
       /\ (snap' = snap /\ snap.hidWeights # NoRef)
             => Weights(heap', snap') = Weights(heap, snap)]_vars

\* after a returned backProp call the copy taken before it points to other
\* matrices, with other contents, than the struct
NoInPlaceUpdateWitness ==
    /\ last.op = "train" /\ last.ok
    /\ snap.hidWeights # net.hidWeights /\ snap.outWeights # net.outWeights
    /\ Weights(heap, snap).hid # Weights(heap, net).hid
    /\ Weights(heap, snap).out # Weights(heap, net).out

\* C10: a backProp call panics exactly when the input or the target has the
\* wrong length, with a dimension error, and then both weight fields are the
\* ones the struct had when the call started.
FailedTrainKeepsWeights ==
    last.op = "train" =>
        /\ last.ok <=> (Len(last.input) = net.in /\ Len(last.target) = net.out)
        /\ ~last.ok => /\ err \in DimensionMismatch
                       /\ net = snap
                       /\ Weights(heap, net) = Weights(heap, snap)

\* a call whose forward pass succeeded and whose target has the wrong length
FailedTrainKeepsWeightsWitness ==
    /\ last.op = "train" /\ ~last.ok
    /\ Len(last.input) = net.in
    /\ Len(last.target) \notin {0, net.out}
    /\ err = "ErrShape"

----------------------------------------------------------------------------
(* The matrix helpers on their own (SpecPrim): two operands of arbitrary   *)
(* shape at addresses 1 and 2, one helper call.                            *)

Fill(r, c, f) == [r |-> r, c |-> c, d |-> [k \in 1..(r * c) |-> (((k * f) % 5) - 2) * (Q \div 2)]]

InitPrim ==
    /\ \E r1 \in 1..MaxDim, c1 \in 1..MaxDim, r2 \in 1..MaxDim, c2 \in 1..MaxDim,
          f1 \in Fills, f2 \in Fills :
          heap = (1 :> Fill(r1, c1, f1)) @@ (2 :> Fill(r2, c2, f2))
    /\ net = NoNet
    /\ pc = [t \in Threads |-> "idle"]
    /\ loc = [t \in Threads |-> NoLocals]
    /\ ret = NoRef
    /\ err = NoErr
    /\ snap = NoNet
    /\ last = NoCall
    /\ sched = [launched |-> FALSE, mixed |-> FALSE]
    /\ calls = 0

\* the call op(heap[1], heap[2]) with result res
Prim(op, result) ==
    /\ last.op = "none"
    /\ \E res \in {result} :
          /\ ret' = res.ref
          /\ err' = res.err
          /\ heap' = Collect(res.hp, {1, 2, res.ref})
          /\ last' = [op |-> op, input |-> <<>>, target |-> <<>>, ok |-> res.err = NoErr]
    /\ calls' = calls + 1
    /\ UNCHANGED <<net, pc, loc, snap, sched>>

PrimDot  == Prim("dot", dot(Start(heap, 0), Dense(1), Dense(2)))
PrimMult == Prim("mult", mult(Start(heap, 0), Dense(1), Dense(2)))
PrimAdd  == Prim("add", add(Start(heap, 0), Dense(1), Dense(2)))
PrimSub  == Prim("sub", sub(Start(heap, 0), Dense(1), Dense(2)))

NextPrim == PrimDot \/ PrimMult \/ PrimAdd \/ PrimSub

SpecPrim == InitPrim /\ [][NextPrim]_vars

Shape(m) == <<m.r, m.c>>

\* C7: dot panics with a dimension error when the columns of the first
\* operand differ from the rows of the second, and otherwise returns a
\* matrix of the first's rows and the second's columns; mult, add and sub
\* panic with a dimension error when the shapes differ, and otherwise return
\* the element-wise result in the operands' shape.  A panicking call
\* returns no matrix.
PrimDimensions ==
    /\ last.op = "dot" =>
          IF heap[1].c = heap[2].r
          THEN /\ last.ok /\ ret \notin {NoRef, 1, 2}
               /\ Shape(heap[ret]) = <<heap[1].r, heap[2].c>>
               /\ Len(heap[ret].d) = heap[1].r * heap[2].c
          ELSE ~last.ok /\ err = "ErrShape" /\ ret = NoRef /\ DOMAIN heap = {1, 2}
    /\ last.op \in {"mult", "add", "sub"} =>
          IF Shape(heap[1]) = Shape(heap[2])
          THEN /\ last.ok /\ ret \notin {NoRef, 1, 2}
               /\ Shape(heap[ret]) = Shape(heap[1])
               /\ \A k \in 1..(heap[1].r * heap[1].c) :
                     heap[ret].d[k] = CASE last.op = "mult" -> FMul(heap[1].d[k], heap[2].d[k])
                                        [] last.op = "add"  -> heap[1].d[k] + heap[2].d[k]
                                        [] last.op = "sub"  -> heap[1].d[k] - heap[2].d[k]
          ELSE ~last.ok /\ err = "ErrShape" /\ ret = NoRef /\ DOMAIN heap = {1, 2}

\* dot of a 2x3 and a 4x2 matrix has panicked
PrimDimensionsWitness ==
    /\ last.op = "dot" /\ err = "ErrShape"
    /\ Shape(heap[1]) = <<2, 3>> /\ Shape(heap[2]) = <<4, 2>>

----------------------------------------------------------------------------
(* Two backProp calls on one struct without serialisation (SpecRace).      *)
(* The weight fields are pointers: a racing read sees one of the values    *)
(* written, so the outcomes are the interleavings of the reads and writes. *)

\* go net.backProp(a...); go net.backProp(b...), with arguments of the right lengths
Launch ==
    /\ Built /\ AllIdle /\ ~sched.launched /\ calls = 0
    /\ \E ia \in Inputs, ta \in Targets, ib \in Inputs, tb \in Targets :
          /\ Len(ia) = net.in /\ Len(ib) = net.in
          /\ Len(ta) = net.out /\ Len(tb) = net.out
          /\ loc' = [t \in Threads |-> IF t = 1 THEN Args(ia, ta) ELSE Args(ib, tb)]
    /\ pc' = [t \in Threads |-> "L94"]
    /\ sched' = [launched |-> TRUE, mixed |-> FALSE]
    /\ snap' = net
    /\ last' = [NoCall EXCEPT !.op = "running"]
    /\ calls' = calls + 2
    /\ UNCHANGED <<net, heap, ret, err>>

NextRace ==
    \/ InitNetwork
    \/ Launch
    \/ \E t \in Threads : Step(t)

SpecRace == Init /\ [][NextRace]_vars

RaceDone == sched.launched /\ AllIdle

\* the weights after the call of t and then the call of u, one after the other
Serial(t, u) ==
    Let(SimulCommit(Weights(heap, snap), net.learnRate, loc[t].input, loc[t].target).w,
        LAMBDA w1 : SimulCommit(w1, net.learnRate, loc[u].input, loc[u].target).w)

\* C9: two unserialised calls race.  Calls that did not interleave leave the
\* weights of one of the two serial orders (SerialWhenNotMixed); an
\* interleaving that leaves other weights is reachable (RaceWitness).
SerialWhenNotMixed ==
    (RaceDone /\ ~sched.mixed) => Weights(heap, net) \in {Serial(1, 2), Serial(2, 1)}

\* both calls have returned and the weights are those of neither serial order
RaceWitness ==
    /\ RaceDone /\ sched.mixed /\ err = NoErr
    /\ Weights(heap, net) \notin {Serial(1, 2), Serial(2, 1)}

====
